---- MODULE Spec2Model ----
(***************************************************************************)
(* The quadratic "weather model" T(t) = a*t^2 + b*t + c of                 *)
(* weather_model.py, weather_modelling.py and weather_prediction_model.py, *)
(* with its three front ends: the query methods of the model class, the    *)
(* file modes (single record, multiple records) and the interactive        *)
(* entry points.                                                           *)
(*                                                                         *)
(* Python floats are modelled as exact rationals n/d in lowest terms, so   *)
(* rounding is outside the model.  What is kept of the float type is its   *)
(* finite range: float ** raises OverflowError when the result leaves the  *)
(* range.  The range is scaled down to FloatMax so that the values stay    *)
(* inside TLC's integers; the sampled inputs keep the regime of the real   *)
(* doubles in which b**2 leaves the range while b*t (t < 24) does not.     *)
(***************************************************************************)
EXTENDS Integers, Sequences, FiniteSets

VARIABLES
    model,      \* the model object's fields [a, b, c]
    op,         \* the last query made on the model
    arg,        \* its time argument
    tn,         \* the local t after normalisation in predict
    res,        \* the Python value it returned (or the exception it raised)
    mode,       \* the entry point that runs
    file,       \* the text of the input file: a sequence of lines
    readable,   \* whether open(filename) succeeds
    isopen,     \* whether the file handle is open
    pos,        \* lines the file iterator has yielded
    idx,        \* enumerate's counter for the current line
    out,        \* what was printed, in order
    pc,         \* where the entry point stands
    typed,      \* what the user types at the four prompts
    used        \* the (a, b, c, t) the interactive prediction was made with

vars == <<model, op, arg, tn, res, mode, file, readable, isopen, pos, idx, out,
          pc, typed, used>>

modelVars == <<model, op, arg, tn, res>>
fileVars == <<file, readable, isopen, pos, idx>>
promptVars == <<typed, used>>

(***************************** bounds **************************************)
FloatMax == 1000000
MaxLines == 3
TimeSpan == 49
Periods == 2

(* the length of the day, the modulus of predict *)
Day == 24

(***************************** numbers *************************************)
Abs(x) == IF x < 0 THEN -x ELSE x

RECURSIVE GCD(_, _)
GCD(x, y) == IF y = 0 THEN x ELSE GCD(y, x % y)

(* the float with value n/d, d # 0, in lowest terms with d > 0 *)
Float(n, d) ==
    LET g == GCD(Abs(n), Abs(d))
        s == IF d < 0 THEN -1 ELSE 1
    IN [tag |-> "float", n |-> (s * n) \div g, d |-> (s * d) \div g]

Int2F(n) == Float(n, 1)
Add(x, y) == Float(x.n * y.d + y.n * x.d, x.d * y.d)
Neg(x) == Float(-x.n, x.d)
Sub(x, y) == Add(x, Neg(y))
Mul(x, y) == Float(x.n * y.n, x.d * y.d)
Div(x, y) == Float(x.n * y.d, x.d * y.n)
Lt(x, y) == x.n * y.d < y.n * x.d
Le(x, y) == x.n * y.d <= y.n * x.d
Zero == Int2F(0)

(* Python's x % 24 on floats: the result has the sign of the divisor *)
PyMod(x, m) == Float(x.n % (m * x.d), x.d)

(* x ** 2 leaves the float range: CPython raises OverflowError *)
PowOverflows(x) == x.n * x.n > FloatMax * x.d * x.d

(***************************** Python values *******************************)
None == [tag |-> "None"]
Tuple(x, y) == [tag |-> "tuple", fst |-> x, snd |-> y]
Str(s) == [tag |-> "str", s |-> s]
Raised(e) == [tag |-> "raise", exc |-> e]

(* the defaults of the constructor and of the prompts *)
DefaultA == Float(-1, 10)
DefaultB == Float(5, 2)
DefaultC == Int2F(15)
DefaultT == Int2F(12)

WeatherModel(a, b, c) == [a |-> a, b |-> b, c |-> c]

(***************************** the model class *****************************)
(* a*t**2 + b*t + c at the time given, not normalised *)
Poly(m, t) == Add(Add(Mul(m.a, Mul(t, t)), Mul(m.b, t)), m.c)

NormTimeIdentity(t) == t

(* t = t % 24 *)
NormTime(t) == PyMod(t, Day)

predict(m, t) == Poly(m, NormTime(t))

predict_temperature(m, time_hours) == Poly(m, PyMod(time_hours, Day))

peak_temperature_normalised(m) ==
    IF ~Lt(m.a, Zero) THEN Tuple(None, None)
    ELSE LET t_peak == Div(Neg(m.b), Mul(Int2F(2), m.a))
         IN Tuple(NormTime(t_peak), predict(m, t_peak))

peak_temperature(m) ==
    IF ~Lt(m.a, Zero) THEN Tuple(None, None)
    ELSE LET t_peak == Div(Neg(m.b), Mul(Int2F(2), m.a))
             T_peak == predict(m, t_peak)
         IN Tuple(t_peak, T_peak)

find_peak_temperature_time(m) ==
    IF ~Lt(m.a, Zero) THEN None
    ELSE LET peak_time == Div(Neg(m.b), Mul(Int2F(2), m.a))
             peak_temp == predict_temperature(m, peak_time)
         IN Tuple(peak_time, peak_temp)

direction(m) ==
    IF Lt(m.a, Zero) THEN "downward"
    ELSE IF Lt(Zero, m.a) THEN "upward" ELSE "linear"

(* b**2 - 4*a*c *)
Discriminant(m) == Sub(Mul(m.b, m.b), Mul(Mul(Int2F(4), m.a), m.c))

equation_info(m) ==
    IF PowOverflows(m.b) THEN Raised("OverflowError")
    ELSE Tuple(Discriminant(m), Str(direction(m)))

(* analyze_equation prints; what it returns is the orientation it printed, *)
(* unless b**2 raises after the coefficient lines were printed             *)
analyze_equation(m) ==
    LET shown == IF Lt(Zero, m.a) THEN "upward"
                 ELSE IF Lt(m.a, Zero) THEN "downward" ELSE "linear"
    IN IF PowOverflows(m.b) THEN Raised("OverflowError")
       ELSE Tuple(Discriminant(m), Str(shown))

(* peak_time, peak_temp = model.find_peak_temperature_time() *)
UnpackPair(v) == IF v.tag = "tuple" THEN "ok" ELSE "TypeError"

(***************************** queries on a model **************************)
ASet == {Int2F(-1), DefaultA, Zero, Int2F(1)}
BSet == {Int2F(-2), Zero, DefaultB, Int2F(48), Int2F(50), Int2F(2000)}
CSet == {Zero, DefaultC}
TimeSet == {Float(n, 2) : n \in -TimeSpan..TimeSpan}

InitModel ==
    /\ model \in {WeatherModel(a, b, c) : a \in ASet, b \in BSet, c \in CSet}
    /\ op = "init" /\ arg = Zero /\ tn = Zero /\ res = None
    /\ mode = "query" /\ file = <<>> /\ readable = FALSE /\ isopen = FALSE
    /\ pos = 0 /\ idx = 0 /\ out = <<>> /\ pc = "query"
    /\ typed = <<>> /\ used = None

Predict ==
    /\ mode = "query"
    /\ \E t \in TimeSet :
         /\ op' = "predict" /\ arg' = t /\ tn' = NormTime(t)
         /\ res' = predict(model, t)
    /\ UNCHANGED <<model, mode, fileVars, out, pc, promptVars>>

PredictTemperature ==
    /\ mode = "query"
    /\ \E t \in TimeSet :
         /\ op' = "predict_temperature" /\ arg' = t /\ tn' = PyMod(t, Day)
         /\ res' = predict_temperature(model, t)
    /\ UNCHANGED <<model, mode, fileVars, out, pc, promptVars>>

PeakTemperature ==
    /\ mode = "query"
    /\ op' = "peak_temperature" /\ arg' = Zero /\ tn' = Zero
    /\ res' = peak_temperature(model)
    /\ UNCHANGED <<model, mode, fileVars, out, pc, promptVars>>

FindPeakTemperatureTime ==
    /\ mode = "query"
    /\ op' = "find_peak_temperature_time" /\ arg' = Zero /\ tn' = Zero
    /\ res' = find_peak_temperature_time(model)
    /\ UNCHANGED <<model, mode, fileVars, out, pc, promptVars>>

EquationInfo ==
    /\ mode = "query"
    /\ op' = "equation_info" /\ arg' = Zero /\ tn' = Zero
    /\ res' = equation_info(model)
    /\ UNCHANGED <<model, mode, fileVars, out, pc, promptVars>>

AnalyzeEquation ==
    /\ mode = "query"
    /\ op' = "analyze_equation" /\ arg' = Zero /\ tn' = Zero
    /\ res' = analyze_equation(model)
    /\ UNCHANGED <<model, mode, fileVars, out, pc, promptVars>>

NextModel ==
    \/ Predict
    \/ PredictTemperature
    \/ PeakTemperature
    \/ FindPeakTemperatureTime
    \/ EquationInfo
    \/ AnalyzeEquation

SpecModel == InitModel /\ [][NextModel]_vars


(***************************** printing ************************************)
Ev(kind, num, at, val) == [kind |-> kind, num |-> num, at |-> at, val |-> val]

(* print_results(model, t): the lines printed while input line `at` is     *)
(* processed, and the exception that ended it ("" when it returned)        *)
print_results(m, t, at) ==
    LET temp == predict(m, t)
        peak == peak_temperature(m)
        info == equation_info(m)
        first == <<Ev("predicted", 0, at, Tuple(t, temp)),
                   IF peak.fst # None THEN Ev("peak", 0, at, peak)
                                      ELSE Ev("no_peak", 0, at, None)>>
    IN IF info.tag = "raise"
       THEN [out |-> first, exc |-> info.exc]
       ELSE [out |-> first \o <<Ev("discriminant", 0, at, info.fst),
                                Ev("direction", 0, at, info.snd)>>,
             exc |-> ""]

(***************************** text and parsing ****************************)
(* A line is a sequence of items: " " is a run of whitespace, any other    *)
(* item is a token.                                                        *)
Numerals == {"-1", "0", "1", "2", "12", "25", "48", "2000"}

(* float(tok) for a token float accepts *)
FloatOf(tok) ==
    CASE tok = "-1" -> Int2F(-1)
      [] tok = "0" -> Int2F(0)
      [] tok = "1" -> Int2F(1)
      [] tok = "2" -> Int2F(2)
      [] tok = "12" -> Int2F(12)
      [] tok = "25" -> Int2F(25)
      [] tok = "48" -> Int2F(48)
      [] tok = "2000" -> Int2F(2000)

RECURSIVE LStrip(_)
LStrip(s) == IF s # <<>> /\ Head(s) = " " THEN LStrip(Tail(s)) ELSE s

RECURSIVE RStrip(_)
RStrip(s) ==
    IF s # <<>> /\ s[Len(s)] = " " THEN RStrip(SubSeq(s, 1, Len(s) - 1)) ELSE s

(* line.strip() *)
Strip(line) == RStrip(LStrip(line))

(* line.strip().split() *)
Split(line) == SelectSeq(Strip(line), LAMBDA x : x # " ")

Min(x, y) == IF x < y THEN x ELSE y

ParseFailure(msg) ==
    [exc |-> "ValueError", msg |-> msg, a |-> Zero, b |-> Zero, c |-> Zero, t |-> Zero]

ParseRecordFirstFour(line) ==
    LET toks == Split(line)
    IN IF \E i \in 1..Min(Len(toks), 4) : toks[i] \notin Numerals
       THEN ParseFailure("could not convert string to float")
       ELSE IF Len(toks) < 4 THEN ParseFailure("not enough values to unpack")
       ELSE [exc |-> "", msg |-> "", a |-> FloatOf(toks[1]), b |-> FloatOf(toks[2]),
             c |-> FloatOf(toks[3]), t |-> FloatOf(toks[4])]

(* a, b, c, t = map(float, line.strip().split()): the unpacking draws up   *)
(* to five items from the lazy map, converting each as it is drawn         *)
ParseRecord(line) ==
    LET toks == Split(line)
    IN IF \E i \in 1..Min(Len(toks), 5) : toks[i] \notin Numerals
       THEN ParseFailure("could not convert string to float")
       ELSE IF Len(toks) < 4 THEN ParseFailure("not enough values to unpack")
       ELSE IF Len(toks) > 4 THEN ParseFailure("too many values to unpack")
       ELSE [exc |-> "", msg |-> "", a |-> FloatOf(toks[1]), b |-> FloatOf(toks[2]),
             c |-> FloatOf(toks[3]), t |-> FloatOf(toks[4])]

(***************************** the file modes ******************************)
LineSet ==
    { <<>>,
      <<" ">>,
      <<"abc">>,
      <<"1", " ", "2", " ", "0">>,
      <<"1", " ", "2", " ", "0", " ", "12", " ", "1">>,
      <<"-1", " ", "48", " ", "0", " ", "12">>,
      <<" ", "1", " ", "2", " ", "0", " ", "25", " ">>,
      <<"1", " ", "2000", " ", "0", " ", "1">> }

Files == UNION {[1..n -> LineSet] : n \in 0..MaxLines}

EnumerateFromZero(n) == n - 1

(* enumerate(f, 1): the counter of the n-th line the iterator yields *)
Enumerate(n) == n

WithExitLeak == TRUE

(* leaving the with block releases the handle, by return or by exception *)
WithExit == FALSE

(* the body of the for loop for one line *)
LineOutput(line, i, at) ==
    IF Strip(line) = <<>> THEN <<>>
    ELSE LET r == ParseRecord(line)
         IN IF r.exc # ""
            THEN <<Ev("line_error", i, at, Str(r.msg))>>
            ELSE LET p == print_results(WeatherModel(r.a, r.b, r.c), r.t, at)
                 IN <<Ev("case", i, at, None)>> \o p.out \o
                    (IF p.exc # "" THEN <<Ev("line_error", i, at, Str(p.exc))>>
                     ELSE <<>>)

InitFile ==
    /\ mode \in {"single", "multiple"}
    /\ file \in Files
    /\ readable \in BOOLEAN
    /\ isopen = FALSE /\ pos = 0 /\ idx = 0 /\ out = <<>> /\ pc = "start"
    /\ model = WeatherModel(DefaultA, DefaultB, DefaultC)
    /\ op = "init" /\ arg = Zero /\ tn = Zero /\ res = None
    /\ typed = <<>> /\ used = None

MultiOpen ==
    /\ mode = "multiple" /\ pc = "start" /\ readable
    /\ out' = Append(out, Ev("banner", 0, 0, Str("multiple")))
    /\ isopen' = TRUE
    /\ pc' = "loop"
    /\ UNCHANGED <<modelVars, mode, file, readable, pos, idx, promptVars>>

MultiOpenFails ==
    /\ mode = "multiple" /\ pc = "start" /\ ~readable
    /\ out' = out \o <<Ev("banner", 0, 0, Str("multiple")),
                       Ev("file_error", 0, 0, Str("OSError"))>>
    /\ pc' = "done"
    /\ UNCHANGED <<modelVars, mode, fileVars, promptVars>>

MultiLine ==
    /\ mode = "multiple" /\ pc = "loop" /\ pos < Len(file)
    /\ pos' = pos + 1
    /\ idx' = Enumerate(pos')
    /\ out' = out \o LineOutput(file[pos'], idx', pos')
    /\ UNCHANGED <<modelVars, mode, file, readable, isopen, pc, promptVars>>

MultiEnd ==
    /\ mode = "multiple" /\ pc = "loop" /\ pos = Len(file)
    /\ isopen' = WithExit
    /\ pc' = "done"
    /\ UNCHANGED <<modelVars, mode, file, readable, pos, idx, out, promptVars>>

SingleOpen ==
    /\ mode = "single" /\ pc = "start" /\ readable
    /\ out' = Append(out, Ev("banner", 0, 0, Str("single")))
    /\ isopen' = TRUE
    /\ pc' = "loop"
    /\ UNCHANGED <<modelVars, mode, file, readable, pos, idx, promptVars>>

SingleOpenFails ==
    /\ mode = "single" /\ pc = "start" /\ ~readable
    /\ out' = out \o <<Ev("banner", 0, 0, Str("single")),
                       Ev("file_error", 0, 0, Str("OSError"))>>
    /\ pc' = "done"
    /\ UNCHANGED <<modelVars, mode, fileVars, promptVars>>

(* readline, the parse and print_results inside the with block; any       *)
(* exception leaves the block and is reported as a file error              *)
SingleRecord ==
    /\ mode = "single" /\ pc = "loop"
    /\ LET line == IF file = <<>> THEN <<>> ELSE file[1]
           r == ParseRecord(line)
           p == print_results(WeatherModel(r.a, r.b, r.c), r.t, 1)
       IN /\ pos' = Min(1, Len(file))
          /\ out' = IF r.exc # ""
                    THEN Append(out, Ev("file_error", 0, 0, Str(r.msg)))
                    ELSE out \o p.out \o
                         (IF p.exc # ""
                          THEN <<Ev("file_error", 0, 0, Str(p.exc))>> ELSE <<>>)
    /\ isopen' = WithExit
    /\ pc' = "done"
    /\ UNCHANGED <<modelVars, mode, file, readable, idx, promptVars>>

NextFile ==
    \/ MultiOpen
    \/ MultiOpenFails
    \/ MultiLine
    \/ MultiEnd
    \/ SingleOpen
    \/ SingleOpenFails
    \/ SingleRecord

SpecFile == InitFile /\ [][NextFile]_vars


(***************************** the interactive entry points ****************)
InputSet == {"", " ", "abc", "1", "-1", "2000"}

Entered(v) == [exc |-> "", v |-> v]

(* float(input(prompt) or default) *)
PromptOr(s, default) ==
    IF s = "" THEN Entered(default)
    ELSE IF s \in Numerals THEN Entered(FloatOf(s))
    ELSE [exc |-> "ValueError", v |-> Zero]

(* input(prompt).strip(), on the inputs of InputSet *)
StripInput(s) == IF s = " " THEN "" ELSE s

(* x = input(prompt).strip(); float(x) if x else default *)
PromptStripped(s, default) == PromptOr(StripInput(s), default)

Tuple4(a, b, c, t) == [a |-> a, b |-> b, c |-> c, t |-> t]
Defaults == Tuple4(DefaultA, DefaultB, DefaultC, DefaultT)

InitPrompt ==
    /\ mode \in {"keyboard", "main", "interactive"}
    /\ typed \in [1..4 -> InputSet]
    /\ used = None /\ out = <<>> /\ pc = "start"
    /\ model = WeatherModel(DefaultA, DefaultB, DefaultC)
    /\ op = "init" /\ arg = Zero /\ tn = Zero /\ res = None
    /\ file = <<>> /\ readable = FALSE /\ isopen = FALSE /\ pos = 0 /\ idx = 0

(* mode_keyboard: one try block around the four prompts *)
ModeKeyboard ==
    /\ mode = "keyboard" /\ pc = "start"
    /\ LET pa == PromptOr(typed[1], DefaultA)
           pb == PromptOr(typed[2], DefaultB)
           pcc == PromptOr(typed[3], DefaultC)
           pt == PromptOr(typed[4], DefaultT)
           ok == pa.exc = "" /\ pb.exc = "" /\ pcc.exc = "" /\ pt.exc = ""
           u == IF ok THEN Tuple4(pa.v, pb.v, pcc.v, pt.v) ELSE Defaults
           m == WeatherModel(u.a, u.b, u.c)
           p == print_results(m, u.t, 0)
       IN /\ used' = u
          /\ model' = m
          /\ out' = <<Ev("banner", 0, 0, Str("keyboard"))>> \o
                    (IF ok THEN <<>> ELSE <<Ev("invalid_input", 0, 0, None)>>) \o
                    p.out
          /\ pc' = IF p.exc = "" THEN "done" ELSE "crashed"
    /\ UNCHANGED <<op, arg, tn, res, mode, fileVars, typed>>

(* weather_model.py run as a script: one try block around the three       *)
(* coefficient prompts, a second one around the time prompt                *)
MainWeatherModel ==
    /\ mode = "main" /\ pc = "start"
    /\ LET pa == PromptOr(typed[1], DefaultA)
           pb == PromptOr(typed[2], DefaultB)
           pcc == PromptOr(typed[3], DefaultC)
           pt == PromptOr(typed[4], DefaultT)
           ok == pa.exc = "" /\ pb.exc = "" /\ pcc.exc = ""
           m == IF ok THEN WeatherModel(pa.v, pb.v, pcc.v)
                ELSE WeatherModel(DefaultA, DefaultB, DefaultC)
           t == IF pt.exc = "" THEN pt.v ELSE DefaultT
           p == print_results(m, t, 0)
       IN /\ used' = Tuple4(m.a, m.b, m.c, t)
          /\ model' = m
          /\ out' = <<Ev("banner", 0, 0, Str("main"))>> \o
                    (IF ok THEN <<>> ELSE <<Ev("invalid_input", 0, 0, None)>>) \o
                    p.out
          /\ pc' = IF p.exc = "" THEN "done" ELSE "crashed"
    /\ UNCHANGED <<op, arg, tn, res, mode, fileVars, typed>>

(* interactive_prediction: one try block around the prompts, the model's  *)
(* construction and the prediction                                         *)
InteractivePrediction ==
    /\ mode = "interactive" /\ pc = "start"
    /\ LET pa == PromptStripped(typed[1], DefaultA)
           pb == PromptStripped(typed[2], DefaultB)
           pcc == PromptStripped(typed[3], DefaultC)
           pt == PromptStripped(typed[4], DefaultT)
           okc == pa.exc = "" /\ pb.exc = "" /\ pcc.exc = ""
           ok == okc /\ pt.exc = ""
           u == IF ok THEN Tuple4(pa.v, pb.v, pcc.v, pt.v) ELSE Defaults
           m == WeatherModel(u.a, u.b, u.c)
           peak == find_peak_temperature_time(m)
       IN /\ used' = u
          /\ model' = m
          /\ out' = <<Ev("banner", 0, 0, Str("interactive"))>> \o
                    (IF okc
                     THEN <<Ev("model_created", 0, 0,
                               Tuple(pa.v, Tuple(pb.v, pcc.v)))>>
                     ELSE <<>>) \o
                    (IF ok
                     THEN <<Ev("predicted", 0, 0,
                               Tuple(u.t, predict_temperature(m, u.t))),
                            IF peak = None THEN Ev("warning", 0, 0, None)
                                           ELSE Ev("peak", 0, 0, peak)>>
                     ELSE <<Ev("using_defaults", 0, 0, None),
                            Ev("model_created", 0, 0,
                               Tuple(DefaultA, Tuple(DefaultB, DefaultC))),
                            Ev("predicted", 0, 0,
                               Tuple(DefaultT, predict_temperature(m, DefaultT)))>>)
          /\ pc' = "done"
    /\ UNCHANGED <<op, arg, tn, res, mode, fileVars, typed>>

NextPrompt ==
    \/ ModeKeyboard
    \/ MainWeatherModel
    \/ InteractivePrediction

SpecPrompt == InitPrompt /\ [][NextPrompt]_vars


(***************************** claims on the model class *******************)
(* the mathematical t mod m: t - m * floor(t / m) *)
FloorMod(t, m) == Sub(t, Mul(Int2F(m), Int2F(t.n \div (m * t.d))))
InDay(t) == Le(Zero, t) /\ Lt(t, Int2F(Day))
Vertex(m) == Div(Neg(m.b), Mul(Int2F(2), m.a))
PeakOps == {"peak_temperature", "find_peak_temperature_time"}
PredictOf(o, m, t) ==
    IF o = "predict" THEN predict(m, t) ELSE predict_temperature(m, t)
Eps == Float(1, 100)

(* C4: Predict is 24-periodic.  After a prediction at time t (negative or *)
(* beyond 24 included) the time used in the polynomial lies in [0, 24) and *)
(* differs from t by a multiple of 24, the result is the polynomial at     *)
(* that time, and Predict(t mod 24) and Predict(t + 24k) give the same     *)
(* result for every k within Periods.                                      *)
C4_PredictPeriodic ==
    op \in {"predict", "predict_temperature"} =>
        /\ InDay(tn)
        /\ \E k \in -(TimeSpan + 1)..(TimeSpan + 1) :
               arg = Add(tn, Int2F(Day * k))
        /\ res = Poly(model, tn)
        /\ PredictOf(op, model, FloorMod(arg, Day)) = res
        /\ \A k \in -Periods..Periods :
               PredictOf(op, model, Add(arg, Int2F(Day * k))) = res

C4_Witness ==
    /\ op = "predict"
    /\ Lt(arg, Zero)
    /\ tn # arg
    /\ res # Poly(model, arg)

(* C5: for a < 0 the time PeakTemperature returns is a local maximum of   *)
(* Predict, and the temperature it returns is the maximum of the day's     *)
(* curve.                                                                  *)
C5_PeakIsLocalMaximum ==
    (op \in PeakOps /\ Lt(model.a, Zero)) =>
        /\ res.tag = "tuple"
        /\ Le(PredictOf("predict", model, Add(res.fst, Eps)),
              PredictOf("predict", model, res.fst))
        /\ Le(PredictOf("predict", model, Sub(res.fst, Eps)),
              PredictOf("predict", model, res.fst))
        /\ \A t \in TimeSet : Le(PredictOf("predict", model, t), res.snd)

(* C6: for a >= 0 every implementation of the peak query returns the pair *)
(* (None, None), which a caller can unpack; for a < 0 neither component is *)
(* None.                                                                   *)
C6_NoPeakSentinel ==
    op \in PeakOps =>
        /\ ~Lt(model.a, Zero) =>
              /\ res = Tuple(None, None)
              /\ UnpackPair(res) = "ok"
        /\ Lt(model.a, Zero) =>
              /\ res.tag = "tuple"
              /\ res.fst # None
              /\ res.snd # None

(* C7: for every model the orientation is returned, and it is the         *)
(* downward value iff a < 0, the upward value iff a > 0, the linear value  *)
(* iff a = 0, whatever b and c.                                            *)
C7_OrientationTotal ==
    op \in {"equation_info", "analyze_equation"} =>
        /\ res.tag = "tuple"
        /\ res.snd.tag = "str"
        /\ res.snd.s \in {"downward", "upward", "linear"}
        /\ res.snd.s = "downward" <=> Lt(model.a, Zero)
        /\ res.snd.s = "upward" <=> Lt(Zero, model.a)
        /\ res.snd.s = "linear" <=> model.a = Zero

(* C10: for a < 0 the peak query returns (t*, T) with t* = -b/(2a) not    *)
(* reduced modulo 24 and T the polynomial at t* mod 24; T is the           *)
(* polynomial at t* exactly when t* lies in [0, 24).                       *)
C10_PeakPair ==
    (op \in PeakOps /\ Lt(model.a, Zero)) =>
        /\ res.tag = "tuple"
        /\ res.fst = Vertex(model)
        /\ res.snd = Poly(model, FloorMod(Vertex(model), Day))
        /\ (res.snd = Poly(model, res.fst)) <=> InDay(Vertex(model))

C10_Witness ==
    /\ op = "peak_temperature"
    /\ Lt(model.a, Zero)
    /\ res.tag = "tuple"
    /\ ~InDay(res.fst)
    /\ res.snd # Poly(model, res.fst)


(***************************** claims on the file modes ********************)
Fields(line) == SelectSeq(line, LAMBDA x : x # " ")
IsBlankLine(line) == \A i \in DOMAIN line : line[i] = " "
WellFormed(line) ==
    /\ Len(Fields(line)) = 4
    /\ \A i \in 1..4 : Fields(line)[i] \in Numerals
Malformed(line) == ~IsBlankLine(line) /\ ~WellFormed(line)
EntriesOf(kind, i) == {k \in DOMAIN out : out[k].kind = kind /\ out[k].at = i}
ReportKinds == {"case", "line_error"}
Reports == {k \in DOMAIN out : out[k].kind \in ReportKinds}

(* C1: in batch mode every well-formed line produces exactly one case     *)
(* report (its header and its prediction, the polynomial at t mod 24),     *)
(* every malformed line exactly one diagnostic and no case report, a       *)
(* failure never stops the loop, and the case reports are as many as the   *)
(* well-formed lines.                                                      *)
C1_BatchIsolation ==
    (mode = "multiple" /\ readable) =>
        /\ \A i \in 1..pos :
              /\ WellFormed(file[i]) =>
                    /\ Cardinality(EntriesOf("case", i)) = 1
                    /\ Cardinality(EntriesOf("predicted", i)) = 1
                    /\ \A k \in EntriesOf("predicted", i) :
                          LET f == Fields(file[i])
                              m == WeatherModel(FloatOf(f[1]), FloatOf(f[2]),
                                                FloatOf(f[3]))
                          IN out[k].val =
                                 Tuple(FloatOf(f[4]),
                                       Poly(m, FloorMod(FloatOf(f[4]), Day)))
              /\ Malformed(file[i]) =>
                    /\ Cardinality(EntriesOf("line_error", i)) = 1
                    /\ EntriesOf("case", i) = {}
                    /\ EntriesOf("predicted", i) = {}
        /\ Cardinality({k \in DOMAIN out : out[k].kind = "case"}) =
               Cardinality({i \in 1..pos : WellFormed(file[i])})
        /\ pc = "done" => pos = Len(file)

C1_Witness ==
    /\ mode = "multiple" /\ pc = "done"
    /\ \E i, j \in 1..Len(file) :
          /\ i < j
          /\ Malformed(file[i])
          /\ WellFormed(file[j])
          /\ EntriesOf("line_error", i) # {}
          /\ EntriesOf("case", j) # {}

(* C2: the number printed with a case header or a diagnostic is the       *)
(* 1-based position of its line in the file, blank lines counted; a blank  *)
(* line prints nothing and shifts no later number.                         *)
C2_LineNumbers ==
    mode = "multiple" =>
        /\ \A k \in Reports : out[k].num = out[k].at
        /\ {out[k].num : k \in Reports} =
               {i \in 1..pos : ~IsBlankLine(file[i])}
        /\ \A k \in DOMAIN out :
               out[k].at # 0 => ~IsBlankLine(file[out[k].at])

C2_Witness ==
    /\ mode = "multiple" /\ pc = "done"
    /\ \E i, j \in 1..Len(file) :
          /\ i < j
          /\ IsBlankLine(file[i])
          /\ \E k \in Reports : out[k].num = j

(* C3: the report entries (case reports and diagnostics together) appear  *)
(* in strictly increasing order of their line, the output of a line is     *)
(* complete before that of a later line begins, and no line is reported    *)
(* twice.                                                                  *)
C3_StrictOrder ==
    mode = "multiple" =>
        /\ \A k1, k2 \in Reports : k1 < k2 => out[k1].num < out[k2].num
        /\ \A k1, k2 \in DOMAIN out : k1 < k2 => out[k1].at <= out[k2].at

(* C9: when the file cannot be opened, each file mode prints exactly one  *)
(* error message, processes no record and returns; the file is open on no  *)
(* exit path.                                                              *)
C9_ResourceError ==
    mode \in {"single", "multiple"} =>
        /\ pc = "done" => ~isopen
        /\ ~readable =>
              /\ ~isopen
              /\ pos = 0
              /\ pc \in {"start", "done"}
              /\ pc = "done" =>
                    /\ Cardinality({k \in DOMAIN out :
                                       out[k].kind = "file_error"}) = 1
                    /\ \A k \in DOMAIN out :
                           out[k].kind \in {"banner", "file_error"}

C9_Witness ==
    /\ ~readable /\ pc = "done" /\ file # <<>>
    /\ \E k \in DOMAIN out : out[k].kind = "file_error"

(***************************** claims on the interactive entry points ******)
(* C8: in every interactive entry point, a non-empty unparsable input at  *)
(* any of the four prompts makes the prediction use the complete default   *)
(* tuple (-0.1, 2.5, 15, 12).                                              *)
C8_FullDefaultTuple ==
    (pc \in {"done", "crashed"} /\ mode \in {"keyboard", "main", "interactive"}
       /\ \E i \in 1..4 : typed[i] # "" /\ typed[i] \notin Numerals)
    => used = Defaults

====
